---- MODULE Spec2Model ----
(***************************************************************************)
(* json-mcp: the ingestion pipeline (source resolver, Local File and       *)
(* Remote HTTP strategies) and the three tool handlers that call it.       *)
(*                                                                         *)
(* Strings are modelled as sequences of one-character strings so that      *)
(* startsWith / includes are computed, not assumed.  A message is a        *)
(* record naming the template of the source's template literal and the     *)
(* numbers interpolated into it.  The document text is a record of its     *)
(* UTF-8 byte length and of what it looks like to JSON.parse and to the    *)
(* content sniffing of the remote strategy.                                *)
(***************************************************************************)
EXTENDS Integers, Sequences, FiniteSets, TLC

\* ------------------------------------------------------------------------
\* Bounds of the model
\* ------------------------------------------------------------------------

\* number of invocations (tool calls or direct ingest calls) served in a run
MaxInvocations == 2

\* ------------------------------------------------------------------------
\* Program constants
\* ------------------------------------------------------------------------

requestTimeout == 10000

maxResponseSize == 50 * 1024 * 1024

maxFileSize == 50 * 1024 * 1024

\* the cap the specification names; both strategies use the same number
maxContentBytes == 50 * 1024 * 1024

PreviewChars == 200

ErrorKind ==
    { "file_not_found", "invalid_json", "network_error", "invalid_url",
      "unsupported_content_type", "rate_limit_exceeded", "validation_error",
      "authentication_required", "server_error", "content_too_large" }

\* ------------------------------------------------------------------------
\* Strings
\* ------------------------------------------------------------------------

HttpPrefix == << "h", "t", "t", "p", ":", "/", "/" >>

HttpsPrefix == << "h", "t", "t", "p", "s", ":", "/", "/" >>

DotSlash == << ".", "/" >>

Slash == << "/" >>

\* String.prototype.startsWith
StartsWith(s, p) == Len(s) >= Len(p) /\ SubSeq(s, 1, Len(p)) = p

\* String.prototype.includes, for a one-character needle
Includes(s, ch) == \E i \in 1..Len(s) : s[i] = ch

\* The source strings a caller supplies.
Sources ==
    { HttpPrefix \o << "a" >>,                       \* http://a
      HttpsPrefix \o << "a" >>,                      \* https://a
      HttpPrefix,                                    \* http://   (no host)
      << "/", "a" >>,                                \* /a
      << ".", "/", "a" >>,                           \* ./a
      << "a" >>,                                     \* a
      << "d", "/", "a" >>,                           \* d/a
      << ".", ".", "/", "a" >>,                      \* ../a
      << >>,                                         \* the empty string
      << "f", "t", "p", ":", "/", "/", "a" >>,       \* ftp://a
      << "H", "T", "T", "P", ":", "/", "/", "a" >>,  \* HTTP://a
      << "h", "t", "t", "p", ":", "/", "a" >> }      \* http:/a

\* ------------------------------------------------------------------------
\* What the file system and the network can answer
\* ------------------------------------------------------------------------

SmallBytes == 10

\* ingested text: UTF-8 byte length and form.  Only form "json" parses.
Text(bytes, form) == [bytes |-> bytes, form |-> form]

NoText == Text(0, "none")

Contents ==
    { Text(SmallBytes, "json"), Text(maxContentBytes, "json"),
      Text(maxContentBytes + 1, "json"),
      Text(SmallBytes, "text"), Text(maxContentBytes + 1, "text"),
      Text(SmallBytes, "html"), Text(SmallBytes, "xml"), Text(0, "blank") }

\* fs.stat: it rejects, or it reports a size
StatResult(ok, size) == [ok |-> ok, size |-> size]

NoStat == StatResult(FALSE, -1)

StatResults ==
    { StatResult(FALSE, 0) } \cup
    { StatResult(TRUE, n) : n \in { 0, SmallBytes, maxFileSize, maxFileSize + 1 } }

\* a header: absent (get() returns null), or present with a value that is
\* empty, not a number, or a decimal number
Header(present, form, n) == [present |-> present, form |-> form, n |-> n]

HeaderAbsent == Header(FALSE, "absent", 0)

HeaderEmpty == Header(TRUE, "empty", 0)

HeaderJunk == Header(TRUE, "junk", 0)

HeaderNum(n) == Header(TRUE, "num", n)

ContentLengths ==
    { HeaderAbsent, HeaderEmpty, HeaderJunk, HeaderNum(SmallBytes),
      HeaderNum(maxResponseSize), HeaderNum(maxResponseSize + 1) }

RetryAfters == { HeaderAbsent, HeaderEmpty, HeaderNum(120) }

Statuses == { 200, 299, 300, 401, 403, 404, 429, 499, 500, 503 }

\* the declared content type: none, JSON, or something else
ContentTypes == { "absent", "application/json", "text/html" }

Response(status, contentLength, retryAfter, contentType) ==
    [status |-> status, contentLength |-> contentLength,
     retryAfter |-> retryAfter, contentType |-> contentType]

NoResponse == Response(0, HeaderAbsent, HeaderAbsent, "absent")

\* Response.ok
ResponseOk(status) == status >= 200 /\ status <= 299

\* The responses fetch can resolve to.  Retry-After is drawn where the code
\* reads it (a 429), Content-Type where the code reads it (a 2xx).
Responses ==
    { Response(s, cl, HeaderAbsent, "absent") :
        s \in { t \in Statuses : ~ResponseOk(t) /\ t # 429 }, cl \in ContentLengths }
    \cup { Response(429, cl, ra, "absent") : cl \in ContentLengths, ra \in RetryAfters }
    \cup { Response(s, x[1], HeaderAbsent, x[2]) :
             s \in { t \in Statuses : ResponseOk(t) },
             x \in ContentLengths \X ContentTypes }

\* ------------------------------------------------------------------------
\* Outcomes (JsonIngestionResult)
\* ------------------------------------------------------------------------

\* a message: the template of the literal and the numbers interpolated
Msg(text, a, b) == [text |-> text, a |-> a, b |-> b]

Ok(content) == [tag |-> "Ok", content |-> content]

Err(type, message, details) ==
    [tag |-> "Err", type |-> type, message |-> message, details |-> details]

\* no value yet
NoOutcome == [tag |-> "None"]

\* the promise rejected instead of resolving to a value
Rejected == [tag |-> "Rejected"]

\* Math.round(n / 1024 / 1024), n >= 0
RoundMB(n) == (2 * n + 1024 * 1024) \div (2 * 1024 * 1024)

\* JsonIngestionStrategy.validateJsonContent
validateJsonContent(content) ==
    IF content.form = "json"
    THEN Ok(content)
    ELSE Err("invalid_json", Msg("Invalid JSON format in content", 0, 0),
             [error |-> "SyntaxError"])

\* ------------------------------------------------------------------------
\* Source resolver (JsonIngestionContext)
\* ------------------------------------------------------------------------

LocalFileStrategy == "LocalFileStrategy"

HttpJsonStrategy == "HttpJsonStrategy"

NoStrategy == "none"

\* the constructor: Local File first, Remote HTTP second
RegisteredStrategies == << LocalFileStrategy, HttpJsonStrategy >>

LocalCanHandleAll(source) == TRUE

\* !source.startsWith('http://') && !source.startsWith('https://')
LocalCanHandle(source) ==
    ~StartsWith(source, HttpPrefix) /\ ~StartsWith(source, HttpsPrefix)

HttpCanHandleHttpOnly(source) == StartsWith(source, HttpPrefix)

\* source.startsWith('http://') || source.startsWith('https://')
HttpCanHandle(source) ==
    StartsWith(source, HttpPrefix) \/ StartsWith(source, HttpsPrefix)

canHandle(strategy, source) ==
    IF strategy = LocalFileStrategy THEN LocalCanHandle(source)
    ELSE HttpCanHandle(source)

\* Array.prototype.find: the first element, in order, that canHandle accepts
findStrategy(strats, source) ==
    LET hits == { i \in 1..Len(strats) : canHandle(strats[i], source) }
    IN  IF hits = {} THEN NoStrategy
        ELSE strats[CHOOSE i \in hits : \A j \in hits : i <= j]

\* new URL(source): whether it parses, and the protocol it reports.  A
\* special scheme followed by "//" needs a host.
UrlParse(source) ==
    IF StartsWith(source, HttpPrefix)
    THEN [ok |-> Len(source) > Len(HttpPrefix), protocol |-> "http:"]
    ELSE IF StartsWith(source, HttpsPrefix)
    THEN [ok |-> Len(source) > Len(HttpsPrefix), protocol |-> "https:"]
    ELSE [ok |-> FALSE, protocol |-> ""]

\* ------------------------------------------------------------------------
\* Input validation of the tools (zod schemas)
\* ------------------------------------------------------------------------

\* z.string().min(1).refine(...) on filePath
FilePathValid(val) ==
    /\ Len(val) >= 1
    /\ Len(val) > 0
    /\ \/ StartsWith(val, DotSlash)
       \/ StartsWith(val, Slash)
       \/ StartsWith(val, HttpPrefix)
       \/ StartsWith(val, HttpsPrefix)
       \/ ~Includes(val, "/")

\* ------------------------------------------------------------------------
\* State
\* ------------------------------------------------------------------------

Calls == { "c1" }

Tools == { "json_schema", "json_filter", "json_dry_run" }

\* the shape argument of json_filter / json_dry_run: an object, a string
\* holding JSON, or a string that JSON.parse rejects
ShapeArgs == { "object", "json_string", "bad_string" }

VARIABLES
    strategies,   \* JsonIngestionContext.strategies, in registration order
    served,       \* invocations started so far
    inv,          \* per invocation slot: inputs, position, locals, result
    doc,          \* the parsed document handed to the projector / accountant
    parsedShape,  \* the shape handed to them
    projection,   \* what extractWithShape returned for (doc, parsedShape)
    sizes         \* what calculateSizeWithShape and calculateValueSize returned

vars == << strategies, served, inv, doc, parsedShape, projection, sizes >>

\* the projector and the accountant have not been given anything / not run
NotRun == [t |-> "notrun"]

pureVars == << doc, parsedShape, projection, sizes >>

NoReply == [isError |-> FALSE, prefix |-> "none", message |-> Msg("", 0, 0)]

Reply(isError, prefix, message) ==
    [isError |-> isError, prefix |-> prefix, message |-> message]

\* an invocation slot nobody is using
Idle ==
    [ pc       |-> "idle",      \* idle, stat, read, fetch, authbody, body, ingested, done
      tool     |-> "none",      \* a tool of Tools, or "ingest" for a direct ingest call
      source   |-> << >>,
      valid    |-> FALSE,       \* the tool's input validation passed
      strat    |-> NoStrategy,  \* what findStrategy returned
      called   |-> << >>,       \* strategies whose ingest was invoked, in order
      nIngest  |-> 0,           \* calls of JsonIngestionContext.ingest
      nGet     |-> 0,           \* calls of fetch
      nStat    |-> 0,           \* calls of fs.stat
      nRead    |-> 0,           \* calls of fs.readFile
      nText    |-> 0,           \* calls of response.text()
      timer    |-> "none",      \* none, armed, cleared, fired
      aborted  |-> FALSE,       \* controller.signal.aborted
      fetchErr |-> "none",      \* name of the error fetch rejected with
      stat     |-> NoStat,      \* what fs.stat answered
      resp     |-> NoResponse,  \* the response fetch resolved to
      got      |-> "none",      \* how the read ended: none, text, error
      body     |-> NoText,      \* what readFile / response.text() returned
      sres     |-> NoOutcome,   \* what the strategy's ingest returned
      outcome  |-> NoOutcome,   \* what JsonIngestionContext.ingest returned
      reply    |-> NoReply ]    \* what the tool handler returned

Init ==
    /\ strategies = RegisteredStrategies
    /\ served = 0
    /\ inv = [c \in Calls |-> Idle]
    /\ doc = NotRun
    /\ parsedShape = NotRun
    /\ projection = NotRun
    /\ sizes = NotRun

\* The values the resolver's field `strategies: JsonIngestionStrategy[]` can
\* hold over the two strategy classes.  The constructor always builds
\* RegisteredStrategies; the other lists exist only for the resolver taken on
\* its own, so that ingest's no-strategy branch can be exercised.
Registries ==
    { << >>, << LocalFileStrategy >>, << HttpJsonStrategy >>,
      << LocalFileStrategy, HttpJsonStrategy >>,
      << HttpJsonStrategy, LocalFileStrategy >> }

\* the resolver taken as a component: any of these registries
RegistryInit ==
    /\ strategies \in Registries
    /\ served = 0
    /\ inv = [c \in Calls |-> Idle]
    /\ doc = NotRun
    /\ parsedShape = NotRun
    /\ projection = NotRun
    /\ sizes = NotRun

\* ------------------------------------------------------------------------
\* JsonIngestionContext.ingest and the strategies, as steps on a slot
\* ------------------------------------------------------------------------

\* `return await strategy.ingest(source)`: the strategy's result is returned as is
ContextReturn(o) == o

\* the strategy's ingest returns o; so does the resolver's
StrategyReturns(r, o) ==
    [r EXCEPT !.sres = o, !.outcome = ContextReturn(o), !.pc = "ingested"]

\* LocalFileStrategy.ingest up to its first await: resolve, then fs.stat
LocalIngest(r) ==
    [r EXCEPT !.called = Append(@, LocalFileStrategy),
              !.nStat = @ + 1,
              !.pc = "stat"]

\* HttpJsonStrategy.ingest up to its first await: URL checks, timer, fetch
HttpIngest(r) ==
    LET r1 == [r EXCEPT !.called = Append(@, HttpJsonStrategy)]
        url == UrlParse(r.source)
    IN  IF ~url.ok
        THEN StrategyReturns(r1, Err("invalid_url", Msg("Invalid URL format", 0, 0),
                                     [error |-> "TypeError"]))
        ELSE IF url.protocol # "http:" /\ url.protocol # "https:"
        THEN StrategyReturns(r1, Err("invalid_url",
                                     Msg("Only HTTP and HTTPS URLs are supported", 0, 0),
                                     [protocol |-> url.protocol]))
        ELSE [r1 EXCEPT !.timer = "armed", !.nGet = @ + 1, !.pc = "fetch"]

ContextIngestFallback(r, strats) ==
    LET strategy == findStrategy(strats, r.source)
        r1 == [r EXCEPT !.nIngest = @ + 1, !.strat = strategy]
    IN  IF strategy = HttpJsonStrategy THEN HttpIngest(r1) ELSE LocalIngest(r1)

\* JsonIngestionContext.ingest up to its first await
ContextIngest(r, strats) ==
    LET strategy == findStrategy(strats, r.source)
        r1 == [r EXCEPT !.nIngest = @ + 1, !.strat = strategy]
    IN  IF strategy = NoStrategy
        THEN [r1 EXCEPT !.outcome =
                          Err("validation_error",
                              Msg("No strategy found to handle source: ", r.source, 0),
                              [source |-> r.source, availableStrategies |-> strats]),
                        !.pc = "ingested"]
        ELSE IF strategy = LocalFileStrategy THEN LocalIngest(r1)
        ELSE HttpIngest(r1)

\* ------------------------------------------------------------------------
\* LocalFileStrategy.ingest after its awaits
\* ------------------------------------------------------------------------

FileTooLargeOffByOne(size) == size > maxFileSize + 1

\* fileStats.size > this.maxFileSize
FileTooLarge(size) == size > maxFileSize

StatFailureRejects(path) == Rejected

\* fs.stat rejected
StatFailure(path) ==
    Err("file_not_found", Msg("File not found", 0, 0), [error |-> "ENOENT"])

\* fs.stat settled
AfterStat(r, st) ==
    LET r1 == [r EXCEPT !.stat = st]
    IN  IF ~st.ok
        THEN StrategyReturns(r1, StatFailure(r.source))
        ELSE IF FileTooLarge(st.size)
        THEN StrategyReturns(r1,
                 Err("content_too_large",
                     Msg("File too large", RoundMB(st.size), RoundMB(maxFileSize)),
                     [fileSize |-> st.size, maxSize |-> maxFileSize]))
        ELSE [r1 EXCEPT !.nRead = @ + 1, !.pc = "read"]

\* fs.readFile settled: ok with the text, or rejected
AfterRead(r, ok, content) ==
    IF ~ok
    THEN StrategyReturns([r EXCEPT !.got = "error"],
                         Err("file_not_found", Msg("Failed to read file", 0, 0),
                             [error |-> "EACCES"]))
    ELSE StrategyReturns([r EXCEPT !.got = "text", !.body = content],
                         validateJsonContent(content))

\* ------------------------------------------------------------------------
\* HttpJsonStrategy.ingest after its awaits
\* ------------------------------------------------------------------------

\* a header value used as a condition: null and "" are falsy
Truthy(h) == h.present /\ h.form # "empty"

\* parseInt(value, 10) > limit; parseInt of a non-number is NaN, and
\* NaN > limit is false
ParsesAbove(h, limit) == h.form = "num" /\ h.n > limit

IsTimeoutError(name) == name = "TimeoutError"

\* error instanceof Error && error.name === 'AbortError'
IsAbortError(name) == name = "AbortError"

\* the catch around fetch
FetchFailure(name) ==
    IF IsAbortError(name)
    THEN Err("network_error", Msg("Request timeout after ms", requestTimeout, 0),
             [name |-> name])
    ELSE Err("network_error", Msg("Failed to fetch from", 0, 0), [name |-> name])

AfterFetchRejectsRetry(r, name) ==
    [r EXCEPT !.fetchErr = name, !.nGet = @ + 1, !.pc = "fetch"]

\* fetch rejected with an error of that name
AfterFetchRejects(r, name) ==
    StrategyReturns([r EXCEPT !.fetchErr = name], FetchFailure(name))

\* responsePreview || undefined
Preview(chars) == [present |-> chars > 0, chars |-> chars]

\* the 401 / 403 branch, once the preview has been attempted
AuthError(resp, preview) ==
    Err("authentication_required",
        IF resp.status = 401
        THEN Msg("Authentication required", 0, 0)
        ELSE IF resp.status = 403
        THEN Msg("Access forbidden", 0, 0)
        ELSE Msg("This endpoint requires authentication or access is denied.", 0, 0),
        [status |-> resp.status, responsePreview |-> preview])

StatusErrorNoRateLimit(resp) ==
    IF resp.status >= 500
    THEN Err("server_error", Msg("Server error (HTTP)", resp.status, 0),
             [status |-> resp.status])
    ELSE Err("network_error",
             IF resp.status = 404
             THEN Msg("HTTP: Endpoint not found - verify the URL is correct.", resp.status, 0)
             ELSE Msg("HTTP: Client error occurred.", resp.status, 0),
             [status |-> resp.status])

\* the other branches of `if (!response.ok)`
StatusError(resp) ==
    IF resp.status = 429
    THEN Err("rate_limit_exceeded", Msg("API rate limit exceeded", 0, 0),
             [status |-> resp.status,
              retryAfter |-> IF Truthy(resp.retryAfter)
                             THEN resp.retryAfter ELSE HeaderAbsent])
    ELSE IF resp.status >= 500
    THEN Err("server_error", Msg("Server error (HTTP)", resp.status, 0),
             [status |-> resp.status])
    ELSE Err("network_error",
             IF resp.status = 404
             THEN Msg("HTTP: Endpoint not found - verify the URL is correct.", resp.status, 0)
             ELSE Msg("HTTP: Client error occurred.", resp.status, 0),
             [status |-> resp.status])

DeclaredTooLargeOffByOne(h) == Truthy(h) /\ ParsesAbove(h, maxResponseSize + 1)

\* contentLength && parseInt(contentLength, 10) > this.maxResponseSize
DeclaredTooLarge(h) == Truthy(h) /\ ParsesAbove(h, maxResponseSize)

AfterFetchResolvesSizeFirst(r, resp) ==
    LET r1 == [r EXCEPT !.timer = "cleared", !.resp = resp]
    IN  IF DeclaredTooLarge(resp.contentLength)
        THEN StrategyReturns(r1,
                 Err("content_too_large",
                     Msg("Response too large", RoundMB(resp.contentLength.n),
                         RoundMB(maxResponseSize)),
                     [contentLength |-> resp.contentLength.n,
                      maxSize |-> maxResponseSize]))
        ELSE IF ResponseOk(resp.status) \/ resp.status = 401 \/ resp.status = 403
        THEN [r1 EXCEPT !.nText = @ + 1,
                        !.pc = IF ResponseOk(resp.status) THEN "body" ELSE "authbody"]
        ELSE StrategyReturns(r1, StatusError(resp))

\* fetch resolved: clearTimeout, the status checks, the Content-Length check
AfterFetchResolves(r, resp) ==
    LET r1 == [r EXCEPT !.timer = "cleared", !.resp = resp]
    IN  IF ~ResponseOk(resp.status)
        THEN IF resp.status = 401 \/ resp.status = 403
             THEN [r1 EXCEPT !.nText = @ + 1, !.pc = "authbody"]
             ELSE StrategyReturns(r1, StatusError(resp))
        ELSE IF DeclaredTooLarge(resp.contentLength)
        THEN StrategyReturns(r1,
                 Err("content_too_large",
                     Msg("Response too large", RoundMB(resp.contentLength.n),
                         RoundMB(maxResponseSize)),
                     [contentLength |-> resp.contentLength.n,
                      maxSize |-> maxResponseSize]))
        ELSE [r1 EXCEPT !.nText = @ + 1, !.pc = "body"]

Min(a, b) == IF a <= b THEN a ELSE b

\* response.text() of a 401 / 403 settled; a rejection is swallowed
AfterAuthBody(r, ok, content) ==
    LET r1 == IF ok THEN [r EXCEPT !.got = "text", !.body = content]
              ELSE [r EXCEPT !.got = "error"]
        chars == IF ok THEN Min(content.bytes, PreviewChars) ELSE 0
    IN  StrategyReturns(r1, AuthError(r.resp, Preview(chars)))

\* new TextEncoder().encode(content).length > this.maxResponseSize
ActualTooLarge(content) == content.bytes > maxResponseSize

\* the message built when the body is not JSON
NotJsonMessage(content) ==
    IF content.form = "html"
    THEN Msg("Response content is not valid JSON. The response appears to be HTML", 0, 0)
    ELSE IF content.form = "xml"
    THEN Msg("Response content is not valid JSON. The response appears to be XML", 0, 0)
    ELSE IF content.form = "blank"
    THEN Msg("Response content is not valid JSON. The response is empty", 0, 0)
    ELSE Msg("Response content is not valid JSON. Verify the endpoint returns valid JSON format.", 0, 0)

\* the body is accepted only under a JSON content type
AfterBodyByContentType(r, ok, content) ==
    IF ~ok
    THEN StrategyReturns([r EXCEPT !.got = "error"],
                         Err("network_error", Msg("Failed to read response content", 0, 0),
                             [error |-> "TypeError"]))
    ELSE LET r1 == [r EXCEPT !.got = "text", !.body = content]
         IN  IF ActualTooLarge(content)
             THEN StrategyReturns(r1,
                      Err("content_too_large",
                          Msg("Response too large after reading", RoundMB(content.bytes),
                              RoundMB(maxResponseSize)),
                          [actualSize |-> content.bytes, maxSize |-> maxResponseSize]))
             ELSE IF r.resp.contentType # "application/json"
             THEN StrategyReturns(r1,
                      Err("unsupported_content_type", Msg("Unsupported content type", 0, 0),
                          [contentType |-> r.resp.contentType]))
             ELSE StrategyReturns(r1, validateJsonContent(content))

\* response.text() of a 2xx settled
AfterBody(r, ok, content) ==
    IF ~ok
    THEN StrategyReturns([r EXCEPT !.got = "error"],
                         Err("network_error", Msg("Failed to read response content", 0, 0),
                             [error |-> "TypeError"]))
    ELSE LET r1 == [r EXCEPT !.got = "text", !.body = content]
             validation == validateJsonContent(content)
         IN  IF ActualTooLarge(content)
             THEN StrategyReturns(r1,
                      Err("content_too_large",
                          Msg("Response too large after reading", RoundMB(content.bytes),
                              RoundMB(maxResponseSize)),
                          [actualSize |-> content.bytes, maxSize |-> maxResponseSize]))
             ELSE IF validation.tag # "Ok"
             THEN StrategyReturns(r1,
                      Err("invalid_json", NotJsonMessage(content),
                          [contentType |-> IF r.resp.contentType = "absent"
                                           THEN "unknown" ELSE r.resp.contentType,
                           contentPreview |-> Min(content.bytes, PreviewChars),
                           responseSize |-> content.bytes]))
             ELSE StrategyReturns(r1, validation)

\* ------------------------------------------------------------------------
\* Tool handlers (json_schema, json_filter, json_dry_run)
\* ------------------------------------------------------------------------

\* what fails when the step after a successful ingest throws
ProcessFailure(tool) ==
    IF tool = "json_schema" THEN Msg("Failed to generate schema", 0, 0)
    ELSE IF tool = "json_filter" THEN Msg("Failed to apply shape filter", 0, 0)
    ELSE Msg("Failed to calculate size breakdown", 0, 0)

ToolReplyUnflagged(r, procOk) ==
    IF r.outcome.tag = "Rejected"
    THEN Reply(TRUE, "Error: ", Msg("Unexpected error during processing", 0, 0))
    ELSE IF r.outcome.tag = "Err"
    THEN Reply(FALSE, "Error: ", r.outcome.message)
    ELSE IF r.tool # "json_schema" /\ r.outcome.content.form # "json"
    THEN Reply(TRUE, "Error: ", Msg("Invalid JSON format in content", 0, 0))
    ELSE IF ~procOk
    THEN Reply(TRUE, "Error: ", ProcessFailure(r.tool))
    ELSE Reply(FALSE, "", Msg(r.tool, r.outcome.content.bytes, 0))

\* processJsonSchema / processJsonFilter / processJsonDryRun after the await
\* of ingest, and the handler's rendering of the result.  procOk: quicktype,
\* extractWithShape or calculateSizeWithShape did not throw.
ToolReply(r, procOk) ==
    IF r.outcome.tag = "Rejected"
    THEN Reply(TRUE, "Error: ", Msg("Unexpected error during processing", 0, 0))
    ELSE IF r.outcome.tag = "Err"
    THEN Reply(TRUE, "Error: ", r.outcome.message)
    ELSE IF r.tool # "json_schema" /\ r.outcome.content.form # "json"
    THEN Reply(TRUE, "Error: ", Msg("Invalid JSON format in content", 0, 0))
    ELSE IF ~procOk
    THEN Reply(TRUE, "Error: ", ProcessFailure(r.tool))
    ELSE Reply(FALSE, "", Msg(r.tool, r.outcome.content.bytes, 0))

\* the handler up to its first await: shape parsing, input validation, ingest
ToolHandler(r, strats, shape) ==
    IF shape = "bad_string"
    THEN [r EXCEPT !.reply = Reply(TRUE, "Error: ",
                                   Msg("Invalid JSON in shape parameter", 0, 0)),
                   !.pc = "done"]
    ELSE IF ~FilePathValid(r.source)
    THEN [r EXCEPT !.reply = Reply(TRUE, "Validation error: ",
                                   Msg("Must be a valid file path or HTTP/HTTPS URL", 0, 0)),
                   !.pc = "done"]
    ELSE ContextIngest([r EXCEPT !.valid = TRUE], strats)

\* ------------------------------------------------------------------------
\* Actions
\* ------------------------------------------------------------------------

\* a client calls a tool
Invoke(c) ==
    /\ inv[c].pc = "idle"
    /\ served < MaxInvocations
    /\ \E tool \in Tools, source \in Sources, shape \in ShapeArgs :
         /\ tool = "json_schema" => shape = "object"
         /\ inv' = [inv EXCEPT ![c] =
                      ToolHandler([Idle EXCEPT !.tool = tool, !.source = source],
                                  strategies, shape)]
    /\ served' = served + 1
    /\ UNCHANGED << strategies, pureVars >>

\* a caller of the ingestion boundary calls ingest directly
IngestCall(c) ==
    /\ inv[c].pc = "idle"
    /\ served < MaxInvocations
    /\ \E source \in Sources :
         inv' = [inv EXCEPT ![c] =
                   ContextIngest([Idle EXCEPT !.tool = "ingest", !.source = source],
                                 strategies)]
    /\ served' = served + 1
    /\ UNCHANGED << strategies, pureVars >>

\* fs.stat settles
StatSettles(c) ==
    /\ inv[c].pc = "stat"
    /\ \E st \in StatResults : inv' = [inv EXCEPT ![c] = AfterStat(inv[c], st)]
    /\ UNCHANGED << strategies, served, pureVars >>

\* fs.readFile settles; what it reads is whatever the file holds by then
ReadSettles(c) ==
    /\ inv[c].pc = "read"
    /\ \/ inv' = [inv EXCEPT ![c] = AfterRead(inv[c], FALSE, NoText)]
       \/ \E content \in Contents :
            inv' = [inv EXCEPT ![c] = AfterRead(inv[c], TRUE, content)]
    /\ UNCHANGED << strategies, served, pureVars >>

\* the response headers arrive
FetchResolves(c) ==
    /\ inv[c].pc = "fetch"
    /\ ~inv[c].aborted
    /\ \E resp \in Responses :
         inv' = [inv EXCEPT ![c] = AfterFetchResolves(inv[c], resp)]
    /\ UNCHANGED << strategies, served, pureVars >>

\* the transport fails before a response
FetchFails(c) ==
    /\ inv[c].pc = "fetch"
    /\ ~inv[c].aborted
    /\ inv' = [inv EXCEPT ![c] = AfterFetchRejects(inv[c], "TypeError")]
    /\ UNCHANGED << strategies, served, pureVars >>

\* one controller shared by every call in flight
TimerFiresShared(c) ==
    /\ inv[c].timer = "armed"
    /\ inv' = [d \in DOMAIN inv |->
                 IF d = c THEN [inv[d] EXCEPT !.timer = "fired", !.aborted = TRUE]
                 ELSE [inv[d] EXCEPT !.aborted = TRUE]]
    /\ UNCHANGED << strategies, served, pureVars >>

\* the setTimeout callback runs: controller.abort()
TimerFires(c) ==
    /\ inv[c].timer = "armed"
    /\ inv' = [inv EXCEPT ![c] = [@ EXCEPT !.timer = "fired", !.aborted = TRUE]]
    /\ UNCHANGED << strategies, served, pureVars >>

\* the aborted fetch rejects
FetchAborted(c) ==
    /\ inv[c].pc = "fetch"
    /\ inv[c].aborted
    /\ inv' = [inv EXCEPT ![c] = AfterFetchRejects(inv[c], "AbortError")]
    /\ UNCHANGED << strategies, served, pureVars >>

\* response.text() of a 401 / 403 settles
AuthBodySettles(c) ==
    /\ inv[c].pc = "authbody"
    /\ \/ inv' = [inv EXCEPT ![c] = AfterAuthBody(inv[c], FALSE, NoText)]
       \/ \E content \in Contents :
            inv' = [inv EXCEPT ![c] = AfterAuthBody(inv[c], TRUE, content)]
    /\ UNCHANGED << strategies, served, pureVars >>

\* response.text() of a 2xx settles
BodySettles(c) ==
    /\ inv[c].pc = "body"
    /\ \/ inv' = [inv EXCEPT ![c] = AfterBody(inv[c], FALSE, NoText)]
       \/ \E content \in Contents :
            inv' = [inv EXCEPT ![c] = AfterBody(inv[c], TRUE, content)]
    /\ UNCHANGED << strategies, served, pureVars >>

\* ingest has returned: the caller goes on
Returns(c) ==
    /\ inv[c].pc = "ingested"
    /\ IF inv[c].tool = "ingest"
       THEN inv' = [inv EXCEPT ![c] = [@ EXCEPT !.pc = "done"]]
       ELSE \E procOk \in BOOLEAN :
              inv' = [inv EXCEPT ![c] =
                        [@ EXCEPT !.reply = ToolReply(inv[c], procOk), !.pc = "done"]]
    /\ UNCHANGED << strategies, served, pureVars >>

\* the invocation is over and its timer is not pending: the slot is free
Release(c) ==
    /\ inv[c].pc = "done"
    /\ inv[c].timer # "armed"
    /\ inv' = [inv EXCEPT ![c] = Idle]
    /\ UNCHANGED << strategies, served, pureVars >>

Next ==
    \E c \in Calls :
        \/ Invoke(c)
        \/ IngestCall(c)
        \/ StatSettles(c)
        \/ ReadSettles(c)
        \/ FetchResolves(c)
        \/ FetchFails(c)
        \/ TimerFires(c)
        \/ FetchAborted(c)
        \/ AuthBodySettles(c)
        \/ BodySettles(c)
        \/ Returns(c)
        \/ Release(c)

Spec == Init /\ [][Next]_vars

\* the same program over any registry
RegistrySpec == RegistryInit /\ [][Next]_vars

\* ------------------------------------------------------------------------
\* Two ingest calls in flight at once
\* ------------------------------------------------------------------------

ConcCalls == { "c1", "c2" }

\* one remote and one local source
ConcSources == { HttpPrefix \o << "a" >>, << ".", "/", "a" >> }

ConcStatResults == { StatResult(FALSE, 0), StatResult(TRUE, SmallBytes) }

ConcContents == { Text(SmallBytes, "json"), Text(SmallBytes, "text") }

ConcResponses ==
    { Response(st, HeaderAbsent, HeaderAbsent, "application/json") :
          st \in { 200, 401, 500 } }

ConcInit ==
    /\ strategies = RegisteredStrategies
    /\ served = 0
    /\ inv = [c \in ConcCalls |-> Idle]
    /\ doc = NotRun
    /\ parsedShape = NotRun
    /\ projection = NotRun
    /\ sizes = NotRun

ConcIngestCallRegisters(c) ==
    /\ inv[c].pc = "idle"
    /\ served < MaxInvocations
    /\ \E source \in ConcSources :
         inv' = [inv EXCEPT ![c] =
                   ContextIngest([Idle EXCEPT !.tool = "ingest", !.source = source],
                                 strategies)]
    /\ served' = served + 1
    /\ strategies' = Append(strategies, HttpJsonStrategy)
    /\ UNCHANGED pureVars

\* a caller calls ingest while another call may be in flight
ConcIngestCall(c) ==
    /\ inv[c].pc = "idle"
    /\ served < MaxInvocations
    /\ \E source \in ConcSources :
         inv' = [inv EXCEPT ![c] =
                   ContextIngest([Idle EXCEPT !.tool = "ingest", !.source = source],
                                 strategies)]
    /\ served' = served + 1
    /\ UNCHANGED << strategies, pureVars >>

ConcStatSettles(c) ==
    /\ inv[c].pc = "stat"
    /\ \E st \in ConcStatResults : inv' = [inv EXCEPT ![c] = AfterStat(inv[c], st)]
    /\ UNCHANGED << strategies, served, pureVars >>

ConcReadSettles(c) ==
    /\ inv[c].pc = "read"
    /\ \/ inv' = [inv EXCEPT ![c] = AfterRead(inv[c], FALSE, NoText)]
       \/ \E content \in ConcContents :
            inv' = [inv EXCEPT ![c] = AfterRead(inv[c], TRUE, content)]
    /\ UNCHANGED << strategies, served, pureVars >>

ConcFetchResolves(c) ==
    /\ inv[c].pc = "fetch"
    /\ ~inv[c].aborted
    /\ \E resp \in ConcResponses :
         inv' = [inv EXCEPT ![c] = AfterFetchResolves(inv[c], resp)]
    /\ UNCHANGED << strategies, served, pureVars >>

ConcAuthBodySettles(c) ==
    /\ inv[c].pc = "authbody"
    /\ \/ inv' = [inv EXCEPT ![c] = AfterAuthBody(inv[c], FALSE, NoText)]
       \/ \E content \in ConcContents :
            inv' = [inv EXCEPT ![c] = AfterAuthBody(inv[c], TRUE, content)]
    /\ UNCHANGED << strategies, served, pureVars >>

ConcBodySettles(c) ==
    /\ inv[c].pc = "body"
    /\ \/ inv' = [inv EXCEPT ![c] = AfterBody(inv[c], FALSE, NoText)]
       \/ \E content \in ConcContents :
            inv' = [inv EXCEPT ![c] = AfterBody(inv[c], TRUE, content)]
    /\ UNCHANGED << strategies, served, pureVars >>

ConcNext ==
    \E c \in ConcCalls :
        \/ ConcIngestCall(c)
        \/ ConcStatSettles(c)
        \/ ConcReadSettles(c)
        \/ ConcFetchResolves(c)
        \/ FetchFails(c)
        \/ TimerFires(c)
        \/ FetchAborted(c)
        \/ ConcAuthBodySettles(c)
        \/ ConcBodySettles(c)
        \/ Returns(c)
        \/ Release(c)

\* the ingestion boundary called by two clients at once
ConcSpec == ConcInit /\ [][ConcNext]_vars

\* The runtime runs a due timer callback and settles an aborted fetch; the
\* code's own continuations run.  Nothing obliges the file system or the
\* remote peer to answer.
FairSpec ==
    /\ Spec
    /\ \A c \in Calls :
         /\ WF_vars(TimerFires(c))
         /\ WF_vars(FetchAborted(c))
         /\ WF_vars(Returns(c))

\* ------------------------------------------------------------------------
\* Properties
\* ------------------------------------------------------------------------

\* ingest has produced its result
Settled(r) == r.outcome.tag # "None"

\* a response has been received by this invocation
Received(r) == r.resp.status # 0

Is2xx(status) == status \in 200..299

BeginsWithHttp(source) ==
    \/ (Len(source) >= 7 /\ SubSeq(source, 1, 7) = << "h", "t", "t", "p", ":", "/", "/" >>)
    \/ (Len(source) >= 8 /\ SubSeq(source, 1, 8) = << "h", "t", "t", "p", "s", ":", "/", "/" >>)

\* C1: every Ok outcome of ingest carries content of at most maxContentBytes
\* UTF-8 bytes, whatever the file system and the network answer.
C1_OkWithinCap ==
    \A c \in Calls :
        inv[c].outcome.tag = "Ok" => inv[c].outcome.content.bytes <= maxContentBytes

\* C2: when stat succeeds and reports more than maxContentBytes, the outcome
\* is content_too_large carrying the actual and the maximum size, and the
\* file is never read.
C2_OversizedFileNeverRead ==
    \A c \in Calls :
        LET r == inv[c]
        IN  (r.strat = "LocalFileStrategy" /\ r.stat.ok /\ r.stat.size > maxContentBytes) =>
                /\ r.nRead = 0
                /\ r.pc # "read"
                /\ r.got = "none"
                /\ r.outcome.tag = "Err"
                /\ r.outcome.type = "content_too_large"
                /\ r.outcome.details.fileSize = r.stat.size
                /\ r.outcome.details.maxSize = maxContentBytes
                /\ r.outcome.message.a = RoundMB(r.stat.size)
                /\ r.outcome.message.b = 50

C2_Witness ==
    \E c \in Calls :
        /\ inv[c].pc = "done"
        /\ inv[c].stat.ok
        /\ inv[c].stat.size = maxContentBytes + 1
        /\ inv[c].reply.isError

\* the response declares more than the cap
DeclaresTooMuch(r) ==
    /\ Received(r)
    /\ r.resp.contentLength.form = "num"
    /\ r.resp.contentLength.n > maxContentBytes

\* C3 as claimed: a response whose Content-Length parses to more than the cap
\* yields content_too_large and no body read, whatever its status code is.
C3_DeclaredTooLargeAnyStatus ==
    \A c \in Calls :
        LET r == inv[c]
        IN  DeclaresTooMuch(r) =>
                /\ r.nText = 0
                /\ Settled(r) => (r.outcome.tag = "Err" /\ r.outcome.type = "content_too_large")

\* C3 as amended: a 2xx response whose Content-Length parses to more than the
\* cap yields content_too_large, and response.text() is never called.
C3_DeclaredTooLarge2xx ==
    \A c \in Calls :
        LET r == inv[c]
        IN  (DeclaresTooMuch(r) /\ Is2xx(r.resp.status)) =>
                /\ r.nText = 0
                /\ r.pc \notin { "body", "authbody" }
                /\ r.got = "none"
                /\ r.outcome.tag = "Err"
                /\ r.outcome.type = "content_too_large"
                /\ r.outcome.details.contentLength = r.resp.contentLength.n

C3_Witness ==
    \E c \in Calls :
        /\ inv[c].pc = "done"
        /\ DeclaresTooMuch(inv[c])
        /\ Is2xx(inv[c].resp.status)
        /\ inv[c].reply.isError

\* the error kind and message the claim gives for a non-2xx status
StatusMapped(r) ==
    LET st == r.resp.status
        o == r.outcome
    IN  /\ o.tag = "Err"
        /\ st = 401 => (o.type = "authentication_required"
                        /\ o.message.text = "Authentication required")
        /\ st = 403 => (o.type = "authentication_required"
                        /\ o.message.text = "Access forbidden")
        /\ st = 429 => o.type = "rate_limit_exceeded"
        /\ (st >= 500) => o.type = "server_error"
        /\ (st \notin { 401, 403, 429 } /\ st < 500) =>
               /\ o.type = "network_error"
               /\ (o.message.text = "HTTP: Endpoint not found - verify the URL is correct.")
                     <=> (st = 404)

\* C4 as claimed: every non-2xx status maps to its error kind, and a 429's
\* details carry the Retry-After value whenever the header is present.
C4_StatusMappingHeaderPresent ==
    \A c \in Calls :
        LET r == inv[c]
        IN  (Received(r) /\ ~Is2xx(r.resp.status) /\ Settled(r)) =>
                /\ StatusMapped(r)
                /\ (r.resp.status = 429 /\ r.resp.retryAfter.present) =>
                       r.outcome.details.retryAfter = r.resp.retryAfter

\* C4 as amended: every non-2xx status maps to its error kind, and a 429's
\* details carry the Retry-After value whenever the header is present with a
\* non-empty value (absent or empty: no value is carried).
C4_StatusMapping ==
    \A c \in Calls :
        LET r == inv[c]
        IN  (Received(r) /\ ~Is2xx(r.resp.status) /\ Settled(r)) =>
                /\ StatusMapped(r)
                /\ r.resp.status = 429 =>
                       r.outcome.details.retryAfter =
                           (IF r.resp.retryAfter.present /\ r.resp.retryAfter.form # "empty"
                            THEN r.resp.retryAfter
                            ELSE [present |-> FALSE, form |-> "absent", n |-> 0])

C4_Witness ==
    \E c \in Calls :
        /\ inv[c].pc = "done"
        /\ inv[c].resp.status = 429
        /\ inv[c].resp.retryAfter.form = "num"
        /\ inv[c].outcome.tag = "Err"

\* C5: for a non-2xx response the outcome is an error decided by the status
\* code, never Ok, content_too_large or invalid_json, whatever the
\* Content-Length header and the body are.
C5_StatusBeforeSizeAndJson ==
    \A c \in Calls :
        LET r == inv[c]
        IN  (Received(r) /\ ~Is2xx(r.resp.status) /\ Settled(r)) =>
                /\ r.outcome.tag = "Err"
                /\ r.outcome.type \notin { "content_too_large", "invalid_json" }
                /\ r.outcome.type \in { "authentication_required", "rate_limit_exceeded",
                                        "server_error", "network_error" }
                /\ r.outcome.details.status = r.resp.status

C5_Witness ==
    \E c \in Calls :
        /\ inv[c].pc = "done"
        /\ inv[c].resp.status = 500
        /\ DeclaresTooMuch(inv[c])
        /\ inv[c].outcome.tag = "Err"

\* C6: when the timer expires before fetch has produced a response the
\* request is aborted and the outcome is network_error with a message that
\* states 10000 ms; any other failure of fetch is a network_error whose
\* message is not the timeout message.
C6_TimeoutAndTransportFailure ==
    \A c \in Calls :
        LET r == inv[c]
        IN  /\ (r.pc = "fetch" /\ r.timer = "fired") => r.aborted
            /\ (r.aborted /\ ~Received(r) /\ r.fetchErr = "none" /\ r.nGet = 1) =>
                   (r.pc = "fetch" /\ ~Settled(r))
            /\ (r.fetchErr = "AbortError") =>
                   /\ r.timer = "fired"
                   /\ ~Received(r)
                   /\ r.outcome.tag = "Err"
                   /\ r.outcome.type = "network_error"
                   /\ r.outcome.message.text = "Request timeout after ms"
                   /\ r.outcome.message.a = 10000
            /\ (r.fetchErr \notin { "none", "AbortError" }) =>
                   /\ r.outcome.tag = "Err"
                   /\ r.outcome.type = "network_error"
                   /\ r.outcome.message.text # "Request timeout after ms"

C6_Witness ==
    \E c \in Calls :
        /\ inv[c].pc = "done"
        /\ inv[c].fetchErr = "AbortError"
        /\ inv[c].timer = "fired"

\* C7: every remote ingest eventually returns an outcome, also when the peer
\* stops making progress before the headers or while the body is read.
C7_RemoteIngestReturns ==
    \A c \in Calls :
        (inv[c].pc \in { "fetch", "authbody", "body" }) ~> Settled(inv[c])

\* an ingestion result: Ok with content, or Err with a kind of the closed
\* set and a message; never both, never neither
WellFormedOutcome(o) ==
    \/ /\ o.tag = "Ok"
       /\ DOMAIN o = { "tag", "content" }
       /\ o.content \in Contents
    \/ /\ o.tag = "Err"
       /\ DOMAIN o = { "tag", "type", "message", "details" }
       /\ o.type \in ErrorKind
       /\ o.message.text # ""

AtMostOnce(r) ==
    /\ r.nIngest <= 1
    /\ r.nGet <= 1
    /\ r.nStat <= 1
    /\ r.nRead <= 1
    /\ r.nRead = 1 => r.nStat = 1
    /\ r.nGet = 0 \/ r.nStat = 0
    /\ Len(r.called) <= 1

\* C9 as claimed: no retry, and a finished tool invocation has performed
\* exactly one ingest.
C9_ExactlyOneIngestPerTool ==
    \A c \in Calls :
        LET r == inv[c]
        IN  /\ AtMostOnce(r)
            /\ (r.tool \in Tools /\ r.pc = "done") => r.nIngest = 1

\* C9 as amended: no retry (at most one GET, or at most one stat followed by
\* at most one read, on every path), and a finished tool invocation has
\* performed exactly one ingest when its shape parsing and input validation
\* passed, and none otherwise.
C9_NoRetry ==
    \A c \in Calls :
        LET r == inv[c]
        IN  /\ AtMostOnce(r)
            /\ (r.tool \in Tools /\ r.pc = "done") =>
                   r.nIngest = (IF r.valid THEN 1 ELSE 0)

C9_Witness ==
    \E c \in Calls :
        /\ inv[c].pc = "done"
        /\ inv[c].tool = "json_dry_run"
        /\ inv[c].fetchErr = "TypeError"
        /\ inv[c].nGet = 1

\* C10: ingest delegates to the first strategy, in registration order, whose
\* canHandle accepts the source, invokes no other strategy's ingest and
\* returns its outcome unchanged; http:// and https:// sources go to the
\* Remote HTTP strategy, every other string to the Local File strategy.
C10_FirstMatchDelegation ==
    \A c \in Calls :
        LET r == inv[c]
        IN  r.nIngest = 1 =>
                /\ \E i \in 1..Len(strategies) :
                      /\ strategies[i] = r.strat
                      /\ canHandle(strategies[i], r.source)
                      /\ \A j \in 1..(i - 1) : ~canHandle(strategies[j], r.source)
                /\ r.called = << r.strat >>
                /\ r.strat = (IF BeginsWithHttp(r.source)
                              THEN "HttpJsonStrategy" ELSE "LocalFileStrategy")
                /\ (r.strat = "LocalFileStrategy") => (r.nStat = 1 /\ r.nGet = 0)
                /\ (r.strat = "HttpJsonStrategy") => (r.nStat = 0 /\ r.nRead = 0)
                /\ (r.pc \in { "ingested", "done" }) =>
                       (r.outcome = r.sres /\ Settled(r))

C10_Witness ==
    \E c \in Calls :
        /\ inv[c].pc = "done"
        /\ inv[c].strat = "HttpJsonStrategy"
        /\ inv[c].outcome.tag = "Ok"

\* ---------------------------------------------------------------------
\* The shape projector and the size accountant (part_004:521-660)
\* ---------------------------------------------------------------------

\* longest array in a document
MaxLen == 2

\* JavaScript values: what JSON.parse yields, plus what property reads and
\* the two functions can produce on top of that
JNull == [t |-> "null"]
Undefined == [t |-> "undefined"]
Bool(b) == [t |-> "bool", v |-> b]
Num(n) == [t |-> "num", v |-> n]
\* JSON.parse("1e999")
Infinity == [t |-> "inf"]
Str(s) == [t |-> "str", v |-> s]
Arr(s) == [t |-> "arr", v |-> s]
Obj(f) == [t |-> "obj", v |-> f]
\* a method inherited from Object.prototype / String.prototype / ...
Function == [t |-> "function", length |-> 0]
\* Number.prototype.toString, which declares one parameter (the radix)
NumberToString == [t |-> "function", length |-> 1]
\* a thrown TypeError (property read on null or undefined)
TypeError == [t |-> "TypeError"]
\* the loop body assigned nothing for this key
Skip == [t |-> "skip"]

EmptyObj == Obj([k \in {} |-> JNull])
EmptyArr == Arr(<< >>)

KeyA == << "a" >>
KeyB == << "b" >>
\* a key that JSON.stringify has to escape
KeyQuote == << "\"" >>
KeyLength == << "l", "e", "n", "g", "t", "h" >>
KeyToString == << "t", "o", "S", "t", "r", "i", "n", "g" >>

\* property names every non-null value inherits from its prototype
PrototypeKeys == { KeyToString }

TypeOf(x) ==
    IF x.t \in {"null", "obj", "arr"} THEN "object"
    ELSE IF x.t \in {"num", "inf"} THEN "number"
    ELSE IF x.t = "str" THEN "string"
    ELSE IF x.t = "bool" THEN "boolean"
    ELSE IF x.t = "function" THEN "function"
    ELSE "undefined"

\* typeof data === 'array' is never true
IsArrayByTypeof(data) == TypeOf(data) = "array"

\* Array.isArray(data)
IsArray(data) == data.t = "arr"

\* rule is truthy
RuleIsTruthy(rule) ==
    /\ rule.t \notin {"null", "undefined"}
    /\ rule.t = "bool" => rule.v
    /\ rule.t = "num" => rule.v # 0
    /\ rule.t = "str" => rule.v # << >>

\* rule === true
RuleIsTrue(rule) == rule.t = "bool" /\ rule.v

\* JavaScript truthiness, as used by `||`
ToBoolean(x) ==
    /\ x.t \notin {"null", "undefined"}
    /\ x.t = "bool" => x.v
    /\ x.t = "num" => x.v # 0
    /\ x.t = "str" => x.v # << >>

\* own property of an object
HasKey(data, key) == data.t = "obj" /\ key \in DOMAIN data.v

\* data[key]
Get(data, key) ==
    IF data.t \in {"null", "undefined"} THEN TypeError
    ELSE IF HasKey(data, key) THEN data.v[key]
    ELSE IF data.t \in {"str", "arr"} /\ key = KeyLength THEN Num(Len(data.v))
    ELSE IF data.t = "function" /\ key = KeyLength THEN Num(data.length)
    ELSE IF key \in PrototypeKeys
    THEN (IF data.t \in {"num", "inf"} THEN NumberToString ELSE Function)
    ELSE Undefined

\* the keys `for (const key in shape)` visits; none for null or a scalar
\* (array rules are not in the universe of shapes)
ForIn(shape) == IF shape.t = "obj" THEN DOMAIN shape.v ELSE {}

RECURSIVE extractWithShape(_, _)
extractWithShape(data, shape) ==
    IF IsArray(data)
    THEN LET items == [i \in 1..Len(data.v) |-> extractWithShape(data.v[i], shape)]
         IN  IF \E i \in 1..Len(data.v) : items[i].t = "TypeError"
             THEN TypeError
             ELSE Arr(items)
    ELSE LET assigned(key) ==
                 LET rule == shape.v[key]
                 IN  IF RuleIsTrue(rule) THEN Get(data, key)
                     ELSE IF TypeOf(rule) = "object"
                     THEN LET d == Get(data, key)
                          IN  IF d.t = "TypeError" THEN TypeError
                              ELSE IF d.t = "undefined" THEN Skip
                              ELSE extractWithShape(d, rule)
                     ELSE Skip
         IN  IF \E key \in ForIn(shape) : assigned(key).t = "TypeError"
             THEN TypeError
             ELSE Obj([key \in {k \in ForIn(shape) : assigned(k).t # "skip"}
                           |-> assigned(key)])

Digits == << "0", "1", "2", "3", "4", "5", "6", "7", "8", "9" >>

\* Number.prototype.toString for a non-negative integer
RECURSIVE NumToString(_)
NumToString(n) ==
    IF n < 10 THEN << Digits[n + 1] >>
    ELSE NumToString(n \div 10) \o << Digits[(n % 10) + 1] >>

InfinityToString == << "I", "n", "f", "i", "n", "i", "t", "y" >>
NullText == << "n", "u", "l", "l" >>
TrueText == << "t", "r", "u", "e" >>
FalseText == << "f", "a", "l", "s", "e" >>

\* the elements of a set in some fixed order
RECURSIVE SetToSeq(_)
SetToSeq(S) ==
    IF S = {} THEN << >>
    ELSE LET x == CHOOSE x \in S : TRUE IN << x >> \o SetToSeq(S \ {x})

RECURSIVE SumSeq(_)
SumSeq(q) == IF q = << >> THEN 0 ELSE Head(q) + SumSeq(Tail(q))

RECURSIVE Concat(_)
Concat(q) == IF q = << >> THEN << >> ELSE Head(q) \o Concat(Tail(q))

\* s1,s2,...,sn
Join(q) ==
    Concat([i \in 1..Len(q) |-> IF i < Len(q) THEN q[i] \o << "," >> ELSE q[i]])

\* JSON.stringify of a string: quotes and backslashes take an escape
\* (the universe holds no control characters)
Quote(str) ==
    << "\"" >>
    \o Concat([i \in 1..Len(str) |->
                  IF str[i] \in {"\"", "\\"} THEN << "\\", str[i] >> ELSE << str[i] >>])
    \o << "\"" >>

\* `"${key}"`: the key between quotes, as it is
TemplateQuote(key) == << "\"" >> \o key \o << "\"" >>

\* what JSON.stringify leaves out of an object (and turns to null in an array)
Unserializable(x) == x.t \in {"undefined", "function"}

\* JSON.stringify(value) without whitespace, as a sequence of bytes
RECURSIVE JsonStringify(_)
JsonStringify(value) ==
    IF value.t = "null" \/ value.t = "inf" \/ Unserializable(value) THEN NullText
    ELSE IF value.t = "bool" THEN (IF value.v THEN TrueText ELSE FalseText)
    ELSE IF value.t = "num" THEN NumToString(value.v)
    ELSE IF value.t = "str" THEN Quote(value.v)
    ELSE IF value.t = "arr"
    THEN << "[" >>
         \o Join([i \in 1..Len(value.v) |-> JsonStringify(value.v[i])])
         \o << "]" >>
    ELSE LET keys == SetToSeq({k \in DOMAIN value.v : ~Unserializable(value.v[k])})
         IN  << "{" >>
             \o Join([i \in 1..Len(keys) |->
                         Quote(keys[i]) \o << ":" >> \o JsonStringify(value.v[keys[i]])])
             \o << "}" >>

\* the keys of an object that its serialization shows
SerializedKeys(p) == {k \in DOMAIN p.v : ~Unserializable(p.v[k])}

RECURSIVE calculateValueSize(_)
calculateValueSize(value) ==
    IF value.t = "null" THEN Len(NullText)
    ELSE IF value.t = "undefined" THEN 0
    ELSE IF value.t = "str" THEN Len(Quote(value.v))
    ELSE IF value.t = "num" THEN Len(NumToString(value.v))
    ELSE IF value.t = "inf" THEN Len(InfinityToString)
    ELSE IF value.t = "bool" THEN Len(IF value.v THEN TrueText ELSE FalseText)
    ELSE IF IsArray(value)
    THEN 2 + SumSeq([i \in 1..Len(value.v) |->
                        calculateValueSize(value.v[i])
                        + (IF i < Len(value.v) THEN 1 ELSE 0)])
    ELSE IF TypeOf(value) = "object"
    THEN LET entries == SetToSeq({k \in DOMAIN value.v : value.v[k].t # "undefined"})
         IN  2 + SumSeq([i \in 1..Len(entries) |->
                            Len(TemplateQuote(entries[i])) + 1
                            + calculateValueSize(value.v[entries[i]])
                            + (IF i < Len(entries) THEN 1 ELSE 0)])
    ELSE 0

\* Object.keys of a breakdown
ObjectKeys(b) == IF b.t = "obj" THEN DOMAIN b.v ELSE {}

RECURSIVE addSizeBreakdowns(_, _)
addSizeBreakdowns(breakdown1, breakdown2) ==
    IF TypeOf(breakdown1) = "number" /\ TypeOf(breakdown2) = "number"
    THEN Num(breakdown1.v + breakdown2.v)
    ELSE IF TypeOf(breakdown1) = "object" /\ TypeOf(breakdown2) = "object"
    THEN LET allKeys == ObjectKeys(breakdown1) \cup ObjectKeys(breakdown2)
             orZero(x) == IF ToBoolean(x) THEN x ELSE Num(0)
         IN  Obj([key \in allKeys |->
                     addSizeBreakdowns(orZero(Get(breakdown1, key)),
                                       orZero(Get(breakdown2, key)))])
    ELSE IF ToBoolean(breakdown1) THEN breakdown1
    ELSE IF ToBoolean(breakdown2) THEN breakdown2
    ELSE Num(0)

\* the loop of calculateSizeWithShape over the first n element breakdowns
RECURSIVE totalSizeBreakdown(_, _)
totalSizeBreakdown(items, n) ==
    IF n = 0 THEN EmptyObj
    ELSE IF n = 1 THEN items[1]
    ELSE addSizeBreakdowns(totalSizeBreakdown(items, n - 1), items[n])

RECURSIVE calculateSizeWithShape(_, _)
calculateSizeWithShape(data, shape) ==
    IF IsArray(data)
    THEN LET items == [i \in 1..Len(data.v) |->
                          calculateSizeWithShape(data.v[i], shape)]
         IN  IF \E i \in 1..Len(data.v) : items[i].t = "TypeError"
             THEN TypeError
             ELSE totalSizeBreakdown(items, Len(data.v))
    ELSE LET assigned(key) ==
                 LET rule == shape.v[key]
                     d == Get(data, key)
                 IN  IF d.t = "TypeError" THEN TypeError
                     ELSE IF d.t = "undefined" THEN Skip
                     ELSE IF RuleIsTrue(rule) THEN Num(calculateValueSize(d))
                     ELSE IF TypeOf(rule) = "object"
                     THEN calculateSizeWithShape(d, rule)
                     ELSE Skip
         IN  IF \E key \in ForIn(shape) : assigned(key).t = "TypeError"
             THEN TypeError
             ELSE Obj([key \in {k \in ForIn(shape) : assigned(k).t # "skip"}
                           |-> assigned(key)])

\* ---- the documents and shapes explored ----

Scalars ==
    { JNull, Bool(TRUE), Num(1), Num(30), Infinity, Str(<< "x" >>), Str(<< "\"" >>) }

DocKeys == { KeyA, KeyB, KeyQuote, KeyToString }

FlatObjs ==
    {EmptyObj}
    \cup { Obj(k :> x) : k \in DocKeys, x \in Scalars }
    \cup { Obj(KeyA :> x @@ KeyB :> y) : x \in {JNull, Num(1)}, y \in {JNull, Num(1)} }

Elems ==
    { JNull, Num(1), Obj(KeyA :> Num(1)), Obj(KeyToString :> Num(1)),
      EmptyArr, Arr(<< Obj(KeyA :> Num(1)) >>) }

Arrays == { Arr(q) : q \in UNION { [1..n -> Elems] : n \in 0..MaxLen } }

Inner ==
    { EmptyObj, Obj(KeyA :> Num(1)), Obj(KeyB :> Num(1)), Obj(KeyB :> JNull),
      Obj(KeyA :> Num(1) @@ KeyB :> Num(1)), Str(<< "x" >>) }
    \cup Arrays

Nested == { Obj(KeyA :> x) : x \in Inner }

\* JSON.parse(ingestionResult.content)
Docs == Scalars \cup FlatObjs \cup Arrays \cup Nested

EmptyShape == EmptyObj

\* the shape parameter is z.any(): a rule can be any JSON value
Rules ==
    { Bool(TRUE), Bool(FALSE), JNull, Num(1), Str(<< "x" >>), EmptyShape,
      Obj(KeyA :> Bool(TRUE)), Obj(KeyB :> Bool(TRUE)),
      Obj(KeyLength :> Bool(TRUE)), Obj(KeyToString :> Bool(TRUE)) }

ShapeKeys == { KeyA, KeyB, KeyLength, KeyToString }

Shapes ==
    {EmptyShape}
    \cup { Obj(k :> r) : k \in ShapeKeys, r \in Rules }
    \cup { Obj(KeyA :> r @@ KeyB :> Bool(TRUE)) : r \in {Bool(TRUE), Obj(KeyB :> Bool(TRUE))} }

\* type Shape = { [key: string]: true | Shape }
RECURSIVE WellFormedShape(_)
WellFormedShape(shape) ==
    /\ shape.t = "obj"
    /\ \A k \in DOMAIN shape.v :
           RuleIsTrue(shape.v[k]) \/ WellFormedShape(shape.v[k])

\* processJsonFilter's result once the document is parsed
FilterResult(x) ==
    IF x.t = "TypeError"
    THEN [t |-> "result", success |-> FALSE, message |-> "Failed to apply shape filter"]
    ELSE [t |-> "result", success |-> TRUE, filteredData |-> x]

\* processJsonDryRun's result once the document is parsed
DryRunResult(breakdown, total) ==
    IF breakdown.t = "TypeError"
    THEN [t |-> "result", success |-> FALSE,
          message |-> "Failed to calculate size breakdown"]
    ELSE [t |-> "result", success |-> TRUE, sizeBreakdown |-> breakdown,
          totalSize |-> total]

ProjInit ==
    /\ strategies = RegisteredStrategies
    /\ served = 0
    /\ inv = [c \in Calls |-> Idle]
    /\ doc \in Docs
    /\ parsedShape \in Shapes
    /\ projection = NotRun
    /\ sizes = NotRun

\* processJsonFilter: "Apply shape filter"
ApplyShapeFilter ==
    /\ projection.t = "notrun"
    /\ projection' = FilterResult(extractWithShape(doc, parsedShape))
    /\ UNCHANGED << strategies, served, inv, doc, parsedShape, sizes >>

\* processJsonDryRun: "Calculate size breakdown based on shape"
CalculateSizeBreakdown ==
    /\ sizes.t = "notrun"
    /\ sizes' = DryRunResult(calculateSizeWithShape(doc, parsedShape),
                             calculateValueSize(doc))
    /\ UNCHANGED << strategies, served, inv, doc, parsedShape, projection >>

ProjNext == ApplyShapeFilter \/ CalculateSizeBreakdown

\* the projector and the accountant over every document and shape above
ProjSpec == ProjInit /\ [][ProjNext]_vars

\* the filter / the dry run has produced its result
Filtered == projection.t = "result"
Sized == sizes.t = "result"

\* C11: when no registered strategy's canHandle accepts the source, ingest
\* returns validation_error whose message names the source and whose details
\* list the names of all registered strategies, and no strategy's ingest is
\* invoked.
C11_NoStrategy ==
    \A c \in Calls :
        LET r == inv[c]
            accepted(name) == IF name = "LocalFileStrategy"
                              THEN ~BeginsWithHttp(r.source)
                              ELSE BeginsWithHttp(r.source)
        IN  (r.nIngest = 1 /\ \A i \in 1..Len(strategies) : ~accepted(strategies[i])) =>
                /\ r.outcome.tag = "Err"
                /\ r.outcome.type = "validation_error"
                /\ r.outcome.message.text = "No strategy found to handle source: "
                /\ r.outcome.message.a = r.source
                /\ r.outcome.details.availableStrategies = strategies
                /\ r.called = << >>
                /\ r.sres.tag = "None"
                /\ r.nGet = 0 /\ r.nStat = 0 /\ r.nRead = 0 /\ r.nText = 0

C11_Witness ==
    \E c \in Calls :
        /\ inv[c].pc = "done"
        /\ inv[c].nIngest = 1
        /\ strategies = << "HttpJsonStrategy" >>
        /\ inv[c].source = << "a" >>
        /\ inv[c].outcome.tag = "Err"

\* C12: for every array value v and every shape s, project(v, s) is an array
\* of the same length as v whose i-th element equals project(v[i], s).
C12_ArraysMapElementwise ==
    (Filtered /\ doc.t = "arr") =>
        /\ projection.success
        /\ projection.filteredData.t = "arr"
        /\ Len(projection.filteredData.v) = Len(doc.v)
        /\ \A i \in 1..Len(doc.v) :
               projection.filteredData.v[i] = extractWithShape(doc.v[i], parsedShape)

\* C13 as stated: for every object or array v, project(v, {}) is the empty
\* object {}.
C13_EmptyShapeYieldsEmptyObject ==
    (Filtered /\ doc.t \in {"obj", "arr"} /\ parsedShape = EmptyShape) =>
        /\ projection.success
        /\ projection.filteredData = EmptyObj

\* what the empty shape leaves of a value: {} for anything that is not an
\* array, and for an array the array of what it leaves of each element
RECURSIVE EmptyProjection(_)
EmptyProjection(v) ==
    IF v.t = "arr"
    THEN Arr([i \in 1..Len(v.v) |-> EmptyProjection(v.v[i])])
    ELSE EmptyObj

\* C13: for every value v that is not an array, project(v, {}) is the empty
\* object {}; for every array v, project(v, {}) is an array of the same
\* length whose elements are the projections of v's elements under {}.
C13_EmptyShape ==
    (Filtered /\ parsedShape = EmptyShape) =>
        /\ projection.success
        /\ projection.filteredData = EmptyProjection(doc)

C13_Witness ==
    /\ Filtered
    /\ parsedShape = EmptyShape
    /\ doc.t = "arr"
    /\ Len(doc.v) = 2
    /\ projection.success
    /\ projection.filteredData = Arr(<< EmptyObj, EmptyObj >>)

\* the Include keys of the shape, level by level: a key the document value
\* has is carried as it is, a key it does not have is not serialized
RECURSIVE IncludeCarriedOrOmitted(_, _, _)
IncludeCarriedOrOmitted(data, p, shape) ==
    IF data.t = "arr"
    THEN /\ p.t = "arr"
         /\ Len(p.v) = Len(data.v)
         /\ \A i \in 1..Len(data.v) : IncludeCarriedOrOmitted(data.v[i], p.v[i], shape)
    ELSE /\ p.t = "obj"
         /\ \A key \in ForIn(shape) :
                IF shape.v[key] = Bool(TRUE)
                THEN IF HasKey(data, key)
                     THEN key \in DOMAIN p.v /\ p.v[key] = data.v[key]
                     ELSE key \notin SerializedKeys(p)
                ELSE (shape.v[key].t = "obj" /\ HasKey(data, key) /\ key \in DOMAIN p.v)
                         => IncludeCarriedOrOmitted(data.v[key], p.v[key], shape.v[key])

\* C14: for a shape key mapped to Include, a key the document value has is
\* carried verbatim (null stays null), and a key it does not have is omitted
\* from the serialized projection.
C14_IncludeVerbatimOrOmitted ==
    (Filtered /\ projection.success /\ WellFormedShape(parsedShape)) =>
        IncludeCarriedOrOmitted(doc, projection.filteredData, parsedShape)

\* every object the projector built has only keys of the shape of its level
RECURSIVE AllowList(_, _)
AllowList(p, shape) ==
    IF p.t = "arr"
    THEN \A i \in 1..Len(p.v) : AllowList(p.v[i], shape)
    ELSE /\ p.t = "obj"
         /\ DOMAIN p.v \subseteq ForIn(shape)
         /\ \A k \in DOMAIN p.v :
                shape.v[k] = Bool(TRUE) \/ AllowList(p.v[k], shape.v[k])

\* C15: every key that appears in an object built by the projector, at any
\* depth, is a key the shape names at that depth.
C15_AllowList ==
    (Filtered /\ projection.success) =>
        AllowList(projection.filteredData, parsedShape)

C15_Witness ==
    /\ Filtered
    /\ projection.success
    /\ doc = Obj(KeyA :> Obj(KeyA :> Num(1) @@ KeyB :> Num(1)))
    /\ parsedShape = Obj(KeyA :> Obj(KeyB :> Bool(TRUE)))
    /\ projection.filteredData = Obj(KeyA :> Obj(KeyB :> Num(1)))

\* C16: the projector is total: for every JSON value and every well-formed
\* shape the filter returns a projection and reports no shape-filter failure.
C16_ProjectorTotal ==
    (Filtered /\ WellFormedShape(parsedShape)) => projection.success

\* C17: a shape key whose rule is false, a number, a string or null is
\* ignored by the projector and by the accountant: it is in neither result
\* and neither operation fails.
C17_NonObjectRuleIgnored ==
    \A key \in DOMAIN parsedShape.v :
        parsedShape.v[key].t \in {"null", "num", "str"} \/ parsedShape.v[key] = Bool(FALSE) =>
            /\ Filtered =>
                   /\ projection.success
                   /\ doc.t # "arr" => key \notin DOMAIN projection.filteredData.v
            /\ Sized =>
                   /\ sizes.success
                   /\ key \notin DOMAIN sizes.sizeBreakdown.v

\* C18: sizeOf(v) is the byte length of v serialized as JSON without
\* whitespace.
C18_SizeOfIsSerializedLength ==
    (Sized /\ sizes.success) => sizes.totalSize = Len(JsonStringify(doc))

\* C19: for a non-array value the breakdown has sizeOf(value[k]) for a
\* present Include key, breakdown(value[k], s[k]) for a present nested key,
\* no entry for an absent key, and the key set of the serialized projection.
C19_BreakdownPerKey ==
    (Sized /\ sizes.success /\ doc.t # "arr" /\ WellFormedShape(parsedShape)) =>
        /\ \A key \in DOMAIN parsedShape.v :
               IF HasKey(doc, key)
               THEN /\ key \in DOMAIN sizes.sizeBreakdown.v
                    /\ sizes.sizeBreakdown.v[key] =
                           IF parsedShape.v[key] = Bool(TRUE)
                           THEN Num(calculateValueSize(doc.v[key]))
                           ELSE calculateSizeWithShape(doc.v[key], parsedShape.v[key])
               ELSE key \notin DOMAIN sizes.sizeBreakdown.v
        /\ (Filtered /\ projection.success) =>
               DOMAIN sizes.sizeBreakdown.v = SerializedKeys(projection.filteredData)

\* the merge the breakdown of an array is defined by: number leaves are
\* summed, a key of one side only counts as 0 on the other
RECURSIVE Merge(_, _)
Merge(b1, b2) ==
    IF b1.t = "num" /\ b2.t = "num" THEN Num(b1.v + b2.v)
    ELSE IF b1.t = "obj" /\ b2.t = "obj"
    THEN Obj([k \in DOMAIN b1.v \cup DOMAIN b2.v |->
                 IF k \notin DOMAIN b2.v THEN b1.v[k]
                 ELSE IF k \notin DOMAIN b1.v THEN b2.v[k]
                 ELSE Merge(b1.v[k], b2.v[k])])
    ELSE Undefined

RECURSIVE MergeAll(_, _)
MergeAll(items, n) ==
    IF n = 0 THEN EmptyObj ELSE Merge(MergeAll(items, n - 1), items[n])

\* C20: the breakdown of an array is the merge of the breakdowns of its
\* elements and is the same for every permutation of the elements; an empty
\* array yields the empty breakdown.
C20_MergeOrderIndependent ==
    (Sized /\ sizes.success /\ doc.t = "arr") =>
        /\ sizes.sizeBreakdown =
               MergeAll([i \in 1..Len(doc.v) |->
                            calculateSizeWithShape(doc.v[i], parsedShape)], Len(doc.v))
        /\ \A perm \in Permutations(1..Len(doc.v)) :
               calculateSizeWithShape(Arr([i \in 1..Len(doc.v) |-> doc.v[perm[i]]]),
                                      parsedShape)
                   = sizes.sizeBreakdown

\* a tool invocation is over
ToolDone(r) == r.pc = "done" /\ r.tool \in Tools

\* the reply is the rendering of a successful result
RendersSuccess(r) ==
    /\ ~r.reply.isError
    /\ r.reply.prefix = ""
    /\ r.outcome.tag = "Ok"
    /\ r.reply.message = Msg(r.tool, r.outcome.content.bytes, 0)

\* C21 as stated: every failure of a tool invocation is rendered as "Error: "
\* followed by the error's message and flagged as an error, with no part of a
\* successful result.
C21_EveryFailureRenderedError ==
    \A c \in Calls :
        LET r == inv[c]
        IN  ToolDone(r) =>
                /\ r.outcome.tag = "Err" => r.reply = Reply(TRUE, "Error: ", r.outcome.message)
                /\ RendersSuccess(r)
                   \/ (r.reply.isError /\ r.reply.prefix = "Error: "
                       /\ r.reply.message.text # "")

\* C21: every failure of shape parsing, ingestion, JSON parsing, projection,
\* size accounting or type inference is rendered as "Error: " followed by the
\* error's message and flagged as an error; a failure of input validation is
\* rendered as "Validation error: " followed by the validation message and
\* flagged as an error; no failure carries any part of a successful result.
C21_FailureRendering ==
    \A c \in Calls :
        LET r == inv[c]
        IN  ToolDone(r) =>
                /\ r.outcome.tag = "Err" => r.reply = Reply(TRUE, "Error: ", r.outcome.message)
                /\ \/ RendersSuccess(r)
                   \/ /\ r.reply.isError
                      /\ r.reply.prefix = "Error: "
                      /\ r.reply.message.text # ""
                   \/ /\ r.reply.isError
                      /\ r.reply.prefix = "Validation error: "
                      /\ r.reply.message.text # ""
                      /\ ~FilePathValid(r.source)
                      /\ r.nIngest = 0
                /\ (FilePathValid(r.source) /\ r.reply.isError) => r.reply.prefix = "Error: "

C21_Witness ==
    \E c \in Calls :
        /\ ToolDone(inv[c])
        /\ inv[c].outcome.tag = "Err"
        /\ inv[c].outcome.type = "server_error"
        /\ inv[c].reply.isError
        /\ inv[c].reply.prefix = "Error: "

\* C22: after construction no sequence of ingest calls, sequential or
\* interleaved, successful or failing, changes the content or the order of
\* the strategy list.
C22_RegistryReadOnly == [][strategies' = strategies]_vars

C22_Witness ==
    /\ strategies = RegisteredStrategies
    /\ inv["c1"].pc = "done" /\ inv["c1"].outcome.tag = "Ok"
    /\ inv["c2"].pc = "done" /\ inv["c2"].outcome.tag = "Err"

\* C23: every non-empty source string that is a filesystem path (absolute,
\* relative or bare) or an http(s) URL passes the tools' input validation and
\* reaches the resolver's ingest; validation rejects no path that the Local
\* File strategy's canHandle accepts.
C23_PathsPassValidation ==
    \A c \in Calls :
        LET r == inv[c]
        IN  (/\ ToolDone(r)
             /\ r.source # << >>
             /\ BeginsWithHttp(r.source) \/ LocalCanHandle(r.source)
             /\ r.reply.message.text # "Invalid JSON in shape parameter") =>
                /\ r.valid
                /\ r.nIngest = 1

\* C24: when a shape key's rule is a nested shape and the document's value
\* at that key is a boolean, a number or a string, the projection holds the
\* empty object {} at that key.
C24_ScalarUnderNestedShape ==
    (Filtered /\ projection.success /\ doc.t = "obj") =>
        \A key \in DOMAIN parsedShape.v :
            (/\ parsedShape.v[key].t = "obj"
             /\ HasKey(doc, key)
             /\ doc.v[key].t \in {"bool", "num", "str"}) =>
                /\ key \in DOMAIN projection.filteredData.v
                /\ JsonStringify(projection.filteredData.v[key]) = << "{", "}" >>

\* C25: on a 401 or 403 response remote ingest reads at most 200 bytes of the
\* body for the preview, and a failure of that read is tolerated: the outcome
\* is authentication_required with the same message and no preview.
C25_AuthPreviewBoundedRead ==
    \A c \in Calls :
        LET r == inv[c]
        IN  (Settled(r) /\ r.resp.status \in {401, 403}) =>
                /\ r.outcome.tag = "Err"
                /\ r.outcome.type = "authentication_required"
                /\ r.outcome.message = AuthError(r.resp, Preview(0)).message
                /\ r.got = "error" => ~r.outcome.details.responsePreview.present
                /\ r.got = "text" => r.body.bytes <= PreviewChars

\* C26: the outcome of remote ingest does not depend on the declared content
\* type: a 2xx response with the same Content-Length and body under any other
\* Content-Type (or none) yields the same outcome kind, Ok with the body
\* unchanged when the body is valid JSON within the cap; no ingest yields
\* unsupported_content_type.
C26_ContentTypeIrrelevant ==
    \A c \in Calls :
        LET r == inv[c]
        IN  Settled(r) =>
                /\ r.outcome.tag = "Err" => r.outcome.type # "unsupported_content_type"
                /\ (ResponseOk(r.resp.status) /\ r.got = "text"
                    /\ r.body.form = "json" /\ r.body.bytes <= maxContentBytes) =>
                       r.outcome = Ok(r.body)
                /\ ResponseOk(r.resp.status) =>
                       \A ct \in ContentTypes :
                           LET other == [r.resp EXCEPT !.contentType = ct]
                               alt == IF r.got = "none"
                                      THEN AfterFetchResolves(r, other).outcome
                                      ELSE AfterBody([r EXCEPT !.resp = other],
                                                     r.got = "text", r.body).outcome
                           IN  /\ alt.tag = r.outcome.tag
                               /\ alt.tag = "Err" => alt.type = r.outcome.type
                               /\ alt.tag = "Ok" => alt.content = r.outcome.content

C26_Witness ==
    \E c \in Calls :
        /\ Settled(inv[c])
        /\ ResponseOk(inv[c].resp.status)
        /\ inv[c].resp.contentType = "text/html"
        /\ inv[c].outcome = Ok(inv[c].body)

\* C27: when a remote ingest has returned, on any path, its timeout timer is
\* no longer pending: it has fired or been cleared.
C27_TimerNotPendingAfterReturn ==
    \A c \in Calls :
        (inv[c].strat = HttpJsonStrategy /\ Settled(inv[c])) => inv[c].timer # "armed"

\* C28: with the default registry exactly one of the two canHandle predicates
\* is true of every source, so the strategy chosen is the same under either
\* registration order and the resolver's no-strategy error is never returned.
C28_ExactlyOneStrategy ==
    \A c \in Calls :
        LET r == inv[c]
        IN  r.nIngest = 1 =>
                /\ LocalCanHandle(r.source) # HttpCanHandle(r.source)
                /\ findStrategy(<< LocalFileStrategy, HttpJsonStrategy >>, r.source)
                       = findStrategy(<< HttpJsonStrategy, LocalFileStrategy >>, r.source)
                /\ r.strat = findStrategy(<< HttpJsonStrategy, LocalFileStrategy >>, r.source)
                /\ r.strat # NoStrategy
                /\ r.called # << >>
                /\ r.outcome.tag = "Err" =>
                       r.outcome.message.text # "No strategy found to handle source: "

C28_Witness ==
    \E c \in Calls :
        /\ inv[c].nIngest = 1
        /\ inv[c].source = HttpsPrefix \o << "a" >>
        /\ inv[c].strat = HttpJsonStrategy
        /\ strategies = << LocalFileStrategy, HttpJsonStrategy >>

\* every serialized value of the projection p sits in the document value
\* data at the same key or index and equals it; the objects built for nested
\* shapes may be empty
RECURSIVE OnlyDocumentData(_, _, _)
OnlyDocumentData(data, p, shape) ==
    IF p.t = "arr"
    THEN /\ data.t = "arr"
         /\ Len(p.v) = Len(data.v)
         /\ \A i \in 1..Len(p.v) : OnlyDocumentData(data.v[i], p.v[i], shape)
    ELSE /\ p.t = "obj"
         /\ \A k \in SerializedKeys(p) :
                IF shape.v[k] = Bool(TRUE)
                THEN HasKey(data, k) /\ p.v[k] = data.v[k]
                ELSE \/ p.v[k].t = "obj" /\ SerializedKeys(p.v[k]) = {}
                     \/ HasKey(data, k) /\ OnlyDocumentData(data.v[k], p.v[k], shape.v[k])

\* C29: every scalar or Include-copied value in the serialized projection
\* sits at a path that exists in the parsed document and equals the
\* document's value at that path.
C29_OnlyDocumentData ==
    (Filtered /\ projection.success) =>
        OnlyDocumentData(doc, projection.filteredData, parsedShape)

\* the outcome of the same ingest call made alone, given what the file system
\* and the network answered it
RunAlone(r) ==
    LET r0 == ContextIngest([Idle EXCEPT !.tool = r.tool, !.source = r.source],
                            RegisteredStrategies)
        r1 == IF r0.pc = "stat" THEN AfterStat(r0, r.stat)
              ELSE IF r0.pc = "fetch"
              THEN (IF r.fetchErr # "none"
                    THEN AfterFetchRejects(r0, r.fetchErr)
                    ELSE AfterFetchResolves(r0, r.resp))
              ELSE r0
        r2 == IF r1.pc = "read" THEN AfterRead(r1, r.got = "text", r.body)
              ELSE IF r1.pc = "authbody" THEN AfterAuthBody(r1, r.got = "text", r.body)
              ELSE IF r1.pc = "body" THEN AfterBody(r1, r.got = "text", r.body)
              ELSE r1
    IN  r2.outcome

\* C30: interleaved ingest calls are isolated: a step of one call changes
\* nothing of the other, a request is aborted only by the expiry of its own
\* timer, and each outcome is the one the call produces when run alone
\* against the same file-system and network answers.
C30_Isolation ==
    [][\A c \in ConcCalls :
          /\ inv'[c] # inv[c] => \A d \in ConcCalls \ {c} : inv'[d] = inv[d]
          /\ (inv'[c].aborted /\ ~inv[c].aborted) =>
                 (inv[c].timer = "armed" /\ inv'[c].timer = "fired")
          /\ inv'[c].fetchErr = "AbortError" => inv'[c].timer = "fired"
          /\ Settled(inv'[c]) => inv'[c].outcome = RunAlone(inv'[c])]_vars

C30_Witness ==
    /\ inv["c1"].strat = HttpJsonStrategy
    /\ inv["c1"].timer = "fired"
    /\ inv["c1"].outcome.tag = "Err"
    /\ inv["c1"].outcome.message.text = "Request timeout after ms"
    /\ inv["c2"].strat = HttpJsonStrategy
    /\ inv["c2"].timer = "cleared"
    /\ inv["c2"].outcome.tag = "Ok"

====
